---- MODULE Spec2Model ----
(***************************************************************************)
(* AgentMetrics (src/llm_agent_quality/agent_metrics.py): the mutable      *)
(* record of one LLM agent invocation, its dataclass constructor and its   *)
(* four recording methods.                                                 *)
(*                                                                         *)
(* tool_names is a Python list, held by reference: the model keeps the     *)
(* list objects in a heap and the record field holds an address, so that   *)
(* two records sharing one list object is a state the model can express.   *)
(* Python integers are unbounded, so the counters are plain integers.      *)
(* Method arguments range over their declared types (int, str, bool),      *)
(* negative numbers, zero and the empty string included.                   *)
(***************************************************************************)
EXTENDS Integers, Sequences, FiniteSets, TLC

VARIABLES
    heap,   \* the list objects: address (index) -> contents
    m,      \* the constructed records: id -> AgentMetrics instance
    ctor,   \* history: the keyword arguments each record was constructed with
    born,   \* history: each record as it was observed right after construction
    hist    \* history: what has been called on each record since

vars == <<heap, m, ctor, born, hist>>

----------------------------------------------------------------------------
(* Bounds of the model *)

\* record_tool_call is explored while tool_names is shorter than this
MaxCalls == 2
\* record_turn is explored while both token counters stay in -1..MaxTokens
MaxTokens == 2

(* Argument values: below, at and above zero; the empty string and a name *)

TokenArgs == {-1, 0, 1}
TurnArgs == {-1, 0, 1}
Names == {"", "write_file"}

----------------------------------------------------------------------------
(* Optional values: None is the empty tuple, a present value v is <<v>>.   *)
(* A keyword argument that is not passed is the empty tuple as well.       *)

None == <<>>
Some(v) == <<v>>
NotPassed == <<>>

----------------------------------------------------------------------------
(* The dataclass: field defaults and the generated constructor *)

\* (variant: one default list, made once, after the caller's list, and handed
\* to every later instance)
default_factory_shared(h) ==
    IF Len(h) > 1
    THEN [heap |-> h, ref |-> 2]
    ELSE [heap |-> Append(h, <<>>), ref |-> Len(h) + 1]

\* field(default_factory=list): list() allocates a new, empty list object
default_factory(h) == [heap |-> Append(h, <<>>), ref |-> Len(h) + 1]

\* (variant: first_tool_turn defaults to turn 0 instead of None)
Defaults_first_turn_zero ==
    [turns |-> 0, tool_calls |-> 0, nudge_fired |-> FALSE, input_tokens |-> 0,
     output_tokens |-> 0, tool_declarations_count |-> 0,
     first_tool_turn |-> <<0>>, model |-> "", empty_response |-> FALSE]

\* the defaults of the fields that have a plain default value
Defaults ==
    [turns |-> 0, tool_calls |-> 0, nudge_fired |-> FALSE, input_tokens |-> 0,
     output_tokens |-> 0, tool_declarations_count |-> 0,
     first_tool_turn |-> None, model |-> "", empty_response |-> FALSE]

\* a constructor call that passes no keyword at all: AgentMetrics()
NoArgs ==
    [turns |-> NotPassed, tool_calls |-> NotPassed, nudge_fired |-> NotPassed,
     input_tokens |-> NotPassed, output_tokens |-> NotPassed,
     tool_declarations_count |-> NotPassed, first_tool_turn |-> NotPassed,
     tool_names |-> NotPassed, model |-> NotPassed, empty_response |-> NotPassed]

\* the dataclass-generated __init__: every field is a keyword; a field that
\* is not passed takes its default (tool_names: a list made by the factory),
\* a list that is passed is stored by reference
AgentMetrics(h, kw) ==
    LET tn == IF kw.tool_names = NotPassed
              THEN default_factory(h)
              ELSE [heap |-> h, ref |-> kw.tool_names[1]]
        arg(f) == IF kw[f] = NotPassed THEN Defaults[f] ELSE kw[f][1]
    IN [heap |-> tn.heap,
        self |-> [turns |-> arg("turns"),
                  tool_calls |-> arg("tool_calls"),
                  nudge_fired |-> arg("nudge_fired"),
                  input_tokens |-> arg("input_tokens"),
                  output_tokens |-> arg("output_tokens"),
                  tool_declarations_count |-> arg("tool_declarations_count"),
                  first_tool_turn |-> arg("first_tool_turn"),
                  tool_names |-> tn.ref,
                  model |-> arg("model"),
                  empty_response |-> arg("empty_response")]]

----------------------------------------------------------------------------
(* The methods, as functions of the instance (and of the heap where the    *)
(* method reaches the list object)                                         *)

\* (variant: stores the last turn's counts instead of accumulating)
record_turn_overwrites(self, input_tokens, output_tokens) ==
    [self EXCEPT !.input_tokens = input_tokens,
                 !.output_tokens = output_tokens]

record_turn(self, input_tokens, output_tokens) ==
    [self EXCEPT !.input_tokens = @ + input_tokens,
                 !.output_tokens = @ + output_tokens]

\* (variant: a tool name that was already recorded is not recorded again)
record_tool_call_dedup(h, self, tool_name, turn) ==
    [heap |-> [h EXCEPT ![self.tool_names] =
                   IF \E k \in 1..Len(@) : @[k] = tool_name
                   THEN @ ELSE Append(@, tool_name)],
     self |-> [self EXCEPT !.tool_calls = @ + 1,
                           !.first_tool_turn =
                               IF @ = <<>> THEN <<turn>> ELSE @]]

\* (variant: keeps the smallest turn seen instead of the first)
record_tool_call_min_turn(h, self, tool_name, turn) ==
    [heap |-> [h EXCEPT ![self.tool_names] = Append(@, tool_name)],
     self |-> [self EXCEPT !.tool_calls = @ + 1,
                           !.first_tool_turn =
                               IF @ = <<>> THEN <<turn>>
                               ELSE IF turn < @[1] THEN <<turn>> ELSE @]]

\* (variant: a turn below 1 is not taken as the first tool turn)
record_tool_call_positive_turn(h, self, tool_name, turn) ==
    [heap |-> [h EXCEPT ![self.tool_names] = Append(@, tool_name)],
     self |-> [self EXCEPT !.tool_calls = @ + 1,
                           !.first_tool_turn =
                               IF @ = <<>> /\ turn >= 1 THEN <<turn>> ELSE @]]

\* (variant: the call counter is left alone when the name is empty)
record_tool_call_skips_unnamed(h, self, tool_name, turn) ==
    [heap |-> [h EXCEPT ![self.tool_names] = Append(@, tool_name)],
     self |-> [self EXCEPT !.tool_calls = IF tool_name = "" THEN @ ELSE @ + 1,
                           !.first_tool_turn =
                               IF @ = <<>> THEN <<turn>> ELSE @]]

record_tool_call(h, self, tool_name, turn) ==
    [heap |-> [h EXCEPT ![self.tool_names] = Append(@, tool_name)],
     self |-> [self EXCEPT !.tool_calls = @ + 1,
                           !.first_tool_turn =
                               IF @ = None THEN Some(turn) ELSE @]]

\* (variant: a second nudge clears the flag)
record_nudge_toggles(self) == [self EXCEPT !.nudge_fired = ~@]

record_nudge(self) == [self EXCEPT !.nudge_fired = TRUE]

\* (variant: adds the turns to the stored count instead of overwriting it)
finalize_adds(self, turns, has_response) ==
    [self EXCEPT !.turns = @ + turns, !.empty_response = ~has_response]

finalize(self, turns, has_response) ==
    [self EXCEPT !.turns = turns, !.empty_response = ~has_response]

total_tokens(self) == self.input_tokens + self.output_tokens

unique_tools_used(h, self) ==
    {h[self.tool_names][i] : i \in 1..Len(h[self.tool_names])}

\* m.tool_names.append(x), done by the caller on the list the record holds
tool_names_append(h, self, x) == [h EXCEPT ![self.tool_names] = Append(@, x)]

----------------------------------------------------------------------------
(* What a caller observes of a record: its fields, tool_names by content *)

View(h, self) == [self EXCEPT !.tool_names = h[self.tool_names]]

ToolNames(r) == heap[m[r].tool_names]

----------------------------------------------------------------------------
(* History *)

NoHistory ==
    [touched |-> FALSE,     \* some method or append was applied to the record
     first_arg |-> None,    \* the turn passed to the first record_tool_call
     calls |-> <<>>,        \* the names passed to record_tool_call, in order
     sum_in |-> 0,          \* the sum of the input_tokens passed to record_turn
     sum_out |-> 0,         \* the sum of the output_tokens passed to record_turn
     nfinalize |-> 0,       \* finalize calls so far: 0, 1 or 2 (two or more)
     nnudge |-> 0]          \* record_nudge calls so far: 0, 1 or 2 (two or more)

UpTo2(n) == IF n < 2 THEN n + 1 ELSE n

----------------------------------------------------------------------------
(* The constructor calls explored *)

\* a list object the caller owns before any record is constructed
CallerHeap == << <<"read_file">> >>
CallerList == Len(CallerHeap)

\* AgentMetrics(), AgentMetrics(model=...), AgentMetrics(turns=3, tool_calls=2,
\* model=...) and AgentMetrics(nudge_fired=True) as the tests call it, and
\* three calls passing the remaining fields
CtorCalls ==
    { NoArgs,
      [NoArgs EXCEPT !.model = Some("gemini-test")],
      [NoArgs EXCEPT !.turns = Some(3), !.tool_calls = Some(2),
                     !.model = Some("gemini-2.5-flash")],
      [NoArgs EXCEPT !.nudge_fired = Some(TRUE)],
      [NoArgs EXCEPT !.first_tool_turn = Some(Some(2))],
      [NoArgs EXCEPT !.tool_names = Some(CallerList), !.tool_calls = Some(1),
                     !.first_tool_turn = Some(Some(1))],
      [NoArgs EXCEPT !.input_tokens = Some(1), !.output_tokens = Some(1),
                     !.tool_declarations_count = Some(4),
                     !.empty_response = Some(TRUE)] }

\* for two records: the default list, or the caller's list, for each
CtorCallsTwo ==
    { NoArgs,
      [NoArgs EXCEPT !.tool_names = Some(CallerList)] }

----------------------------------------------------------------------------
(* Initial states: the records right after construction *)

Init ==
    \E kw \in CtorCalls :
        LET c == AgentMetrics(CallerHeap, kw) IN
        /\ heap = c.heap
        /\ m = (1 :> c.self)
        /\ ctor = (1 :> kw)
        /\ born = (1 :> View(c.heap, c.self))
        /\ hist = (1 :> NoHistory)

InitTwo ==
    \E kw1 \in CtorCallsTwo, kw2 \in CtorCallsTwo :
        LET c1 == AgentMetrics(CallerHeap, kw1)
            c2 == AgentMetrics(c1.heap, kw2) IN
        /\ heap = c2.heap
        /\ m = (1 :> c1.self) @@ (2 :> c2.self)
        /\ ctor = (1 :> kw1) @@ (2 :> kw2)
        /\ born = (1 :> View(c1.heap, c1.self)) @@ (2 :> View(c2.heap, c2.self))
        /\ hist = (1 :> NoHistory) @@ (2 :> NoHistory)

----------------------------------------------------------------------------
(* One action per method call on record r *)

RecordTurn(r, i, o) ==
    /\ m' = [m EXCEPT ![r] = record_turn(m[r], i, o)]
    /\ heap' = heap
    /\ hist' = [hist EXCEPT ![r].touched = TRUE,
                            ![r].sum_in = @ + i,
                            ![r].sum_out = @ + o]
    /\ UNCHANGED <<ctor, born>>

\* (variant: the call is rejected unless the tool is named and the turn positive)
RecordToolCall_validates(r, name, turn) ==
    LET c == record_tool_call(heap, m[r], name, turn) IN
    /\ name # "" /\ turn >= 1
    /\ m' = [m EXCEPT ![r] = c.self]
    /\ heap' = c.heap
    /\ hist' = [hist EXCEPT ![r].touched = TRUE,
                            ![r].calls = Append(@, name),
                            ![r].first_arg = IF @ = None THEN Some(turn) ELSE @]
    /\ UNCHANGED <<ctor, born>>

RecordToolCall(r, name, turn) ==
    LET c == record_tool_call(heap, m[r], name, turn) IN
    /\ m' = [m EXCEPT ![r] = c.self]
    /\ heap' = c.heap
    /\ hist' = [hist EXCEPT ![r].touched = TRUE,
                            ![r].calls = Append(@, name),
                            ![r].first_arg = IF @ = None THEN Some(turn) ELSE @]
    /\ UNCHANGED <<ctor, born>>

RecordNudge(r) ==
    /\ m' = [m EXCEPT ![r] = record_nudge(m[r])]
    /\ heap' = heap
    /\ hist' = [hist EXCEPT ![r].touched = TRUE, ![r].nnudge = UpTo2(@)]
    /\ UNCHANGED <<ctor, born>>

Finalize(r, turns, has_response) ==
    /\ m' = [m EXCEPT ![r] = finalize(m[r], turns, has_response)]
    /\ heap' = heap
    /\ hist' = [hist EXCEPT ![r].touched = TRUE, ![r].nfinalize = UpTo2(@)]
    /\ UNCHANGED <<ctor, born>>

\* the caller appends to the record's list directly
ToolNamesAppend(r, name) ==
    /\ heap' = tool_names_append(heap, m[r], name)
    /\ hist' = [hist EXCEPT ![r].touched = TRUE]
    /\ UNCHANGED <<m, ctor, born>>

----------------------------------------------------------------------------
(* Exploration limits: they bound the search, the methods have no guard *)

TokensInRange(r, i, o) ==
    /\ m[r].input_tokens + i \in (-1)..MaxTokens
    /\ m[r].output_tokens + o \in (-1)..MaxTokens

RoomForCall(r) == Len(ToolNames(r)) < MaxCalls

----------------------------------------------------------------------------
(* One invocation: a record and the four methods *)

Next ==
    \/ \E r \in DOMAIN m, i \in TokenArgs, o \in TokenArgs :
           TokensInRange(r, i, o) /\ RecordTurn(r, i, o)
    \/ \E r \in DOMAIN m, name \in Names, turn \in TurnArgs :
           RoomForCall(r) /\ RecordToolCall(r, name, turn)
    \/ \E r \in DOMAIN m : RecordNudge(r)
    \/ \E r \in DOMAIN m, turns \in TurnArgs, has_response \in BOOLEAN :
           Finalize(r, turns, has_response)

Spec == Init /\ [][Next]_vars

(* Two records side by side; the caller also appends to tool_names directly *)

NextTwo ==
    \/ \E r \in DOMAIN m : TokensInRange(r, 1, 0) /\ RecordTurn(r, 1, 0)
    \/ \E r \in DOMAIN m :
           RoomForCall(r) /\ RecordToolCall(r, "write_file", 1)
    \/ \E r \in DOMAIN m : RecordNudge(r)
    \/ \E r \in DOMAIN m : Finalize(r, 1, FALSE)
    \/ \E r \in DOMAIN m :
           RoomForCall(r) /\ ToolNamesAppend(r, "write_file")

SpecTwo == InitTwo /\ [][NextTwo]_vars

----------------------------------------------------------------------------
(* Vocabulary of the properties.  Where a property is about the steps of one *)
(* method, the step is named by the action itself; a history conjunct in    *)
(* front of the action (implied by it) only spares evaluating the action on *)
(* steps that cannot be that call.                                          *)

FieldNames == DOMAIN NoArgs

\* r was constructed with no keyword other than (optionally) model
Fresh(r) == \A f \in FieldNames \ {"model"} : ctor[r][f] = NotPassed

\* the fields of r other than those in S are the same before and after a step
FieldsKeptExcept(r, S) ==
    /\ \A f \in FieldNames \ (S \cup {"tool_names"}) : m'[r][f] = m[r][f]
    /\ "tool_names" \notin S =>
           /\ m'[r].tool_names = m[r].tool_names
           /\ ToolNames(r)' = ToolNames(r)

IsPrefix(s, t) == Len(s) <= Len(t) /\ SubSeq(t, 1, Len(s)) = s

Optional(S, v) == v = None \/ (Len(v) = 1 /\ v[1] \in S)

\* r is an AgentMetrics instance: every field holds a value of its type
WellFormed(r) ==
    /\ DOMAIN m[r] = FieldNames
    /\ m[r].turns \in Int /\ m[r].tool_calls \in Int
    /\ m[r].input_tokens \in Int /\ m[r].output_tokens \in Int
    /\ m[r].tool_declarations_count \in Int
    /\ m[r].nudge_fired \in BOOLEAN /\ m[r].empty_response \in BOOLEAN
    /\ Optional(Int, m[r].first_tool_turn)
    /\ m[r].model \in STRING
    /\ m[r].tool_names \in 1..Len(heap)
    /\ \A k \in 1..Len(ToolNames(r)) : ToolNames(r)[k] \in STRING

\* the two records were not handed one and the same list at construction
Independent(r, q) ==
    \/ ctor[r].tool_names = NotPassed
    \/ ctor[q].tool_names = NotPassed
    \/ ctor[r].tool_names # ctor[q].tool_names

----------------------------------------------------------------------------
(* C1 *)

\* C1 as stated: in every reachable state of a record, tool_calls equals the
\* length of tool_names.
C1_ToolCallsIsLengthAlways ==
    \A r \in DOMAIN m : m[r].tool_calls = Len(ToolNames(r))

\* C1, amended: for a record constructed with tool_calls equal to the length
\* of tool_names (as the defaults are) and changed only by the four methods,
\* tool_calls equals the length of tool_names in every state.
C1_ToolCallsIsLength ==
    \A r \in DOMAIN m :
        born[r].tool_calls = Len(born[r].tool_names) =>
            m[r].tool_calls = Len(ToolNames(r))

C1_Witness ==
    \E r \in DOMAIN m :
        /\ born[r].tool_calls = Len(born[r].tool_names)
        /\ ctor[r].tool_names # NotPassed
        /\ Len(hist[r].calls) = 1
        /\ m[r].tool_calls = 2
        /\ hist[r].nfinalize >= 1

----------------------------------------------------------------------------
(* C2 *)

\* C2 as stated: after the first record_tool_call(name, t) on any record,
\* first_tool_turn equals t, whatever is called later.
C2_FirstToolTurnIsFirstArgument ==
    \A r \in DOMAIN m :
        hist[r].first_arg # None => m[r].first_tool_turn = hist[r].first_arg

\* C2, amended: first_tool_turn, once present, is changed by no operation;
\* and on a record constructed with first_tool_turn absent, from the first
\* record_tool_call(name, t) on first_tool_turn equals t, whatever turn
\* (smaller or larger) a later record_tool_call passes.
C2_FirstToolTurnWriteOnce ==
    [][\A r \in DOMAIN m :
          /\ m[r].first_tool_turn # None =>
                 m'[r].first_tool_turn = m[r].first_tool_turn
          /\ (born[r].first_tool_turn = None /\ hist'[r].first_arg # None) =>
                 m'[r].first_tool_turn = hist'[r].first_arg]_vars

C2_Witness ==
    \E r \in DOMAIN m :
        /\ born[r].first_tool_turn = None
        /\ hist[r].first_arg = Some(0)
        /\ m[r].first_tool_turn = Some(0)
        /\ Len(hist[r].calls) = 2
        /\ hist[r].nfinalize >= 1

----------------------------------------------------------------------------
(* C3 *)

\* C3: record_tool_call adds one to tool_calls and appends its name at the
\* end of tool_names; no operation changes tool_names other than by
\* extending it; on a fresh record tool_names is exactly the names passed to
\* record_tool_call, in call order, duplicates kept.
C3_AppendOnly ==
    [][\A r \in DOMAIN m :
          /\ IsPrefix(ToolNames(r), ToolNames(r)')
          /\ \A name \in Names, turn \in TurnArgs :
                 (/\ hist'[r].calls = hist[r].calls \o <<name>>
                  /\ RecordToolCall(r, name, turn)) =>
                     /\ m'[r].tool_calls = m[r].tool_calls + 1
                     /\ ToolNames(r)' = ToolNames(r) \o <<name>>
          /\ Fresh(r) => ToolNames(r)' = hist'[r].calls]_vars

C3_Witness ==
    \E r \in DOMAIN m :
        /\ Fresh(r)
        /\ hist[r].calls = <<"write_file", "write_file">>
        /\ ToolNames(r) = <<"write_file", "write_file">>
        /\ unique_tools_used(heap, m[r]) = {"write_file"}
        /\ m[r].tool_calls = 2

----------------------------------------------------------------------------
(* C4 *)

\* C4: finalize(turns, has_response), in whatever state it is called (after
\* an earlier finalize too), sets turns to the value given and
\* empty_response to the negation of has_response, and leaves every other
\* field, the content of tool_names included, as it was.
C4_FinalizeFrame ==
    [][\A r \in DOMAIN m, turns \in TurnArgs, has_response \in BOOLEAN :
          Finalize(r, turns, has_response) =>
              /\ m'[r].turns = turns
              /\ m'[r].empty_response = ~has_response
              /\ FieldsKeptExcept(r, {"turns", "empty_response"})]_vars

C4_Witness ==
    \E r \in DOMAIN m :
        /\ hist[r].nfinalize = 2
        /\ m[r].turns = 1 /\ m[r].empty_response
        /\ m[r].input_tokens = 2
        /\ m[r].nudge_fired
        /\ Len(hist[r].calls) > 0

----------------------------------------------------------------------------
(* C5 *)

\* C5: record_turn(i, o) adds i to input_tokens and o to output_tokens and
\* leaves every other field as it was; on a fresh record input_tokens and
\* output_tokens are the sums of the arguments passed so far, and
\* total_tokens is the sum of both.
C5_RecordTurnAdditive ==
    [][\A r \in DOMAIN m :
          /\ \A i \in TokenArgs, o \in TokenArgs :
                 (/\ hist'[r].sum_in = hist[r].sum_in + i
                  /\ hist'[r].sum_out = hist[r].sum_out + o
                  /\ RecordTurn(r, i, o)) =>
                     /\ m'[r].input_tokens = m[r].input_tokens + i
                     /\ m'[r].output_tokens = m[r].output_tokens + o
                     /\ FieldsKeptExcept(r, {"input_tokens", "output_tokens"})
          /\ Fresh(r) =>
                 /\ m'[r].input_tokens = hist'[r].sum_in
                 /\ m'[r].output_tokens = hist'[r].sum_out
                 /\ total_tokens(m'[r]) = hist'[r].sum_in + hist'[r].sum_out]_vars

C5_Witness ==
    \E r \in DOMAIN m :
        /\ Fresh(r)
        /\ hist[r].sum_in = 2 /\ hist[r].sum_out = -1
        /\ total_tokens(m[r]) = 1
        /\ Len(hist[r].calls) > 0
        /\ hist[r].nfinalize >= 1

----------------------------------------------------------------------------
(* C6 *)

\* C6: in every state (after finalize, after a repeated finalize) each of
\* the four methods can be called with every argument value (negative
\* numbers, the empty string, turns below 1), and the record it leaves is a
\* well-formed record.
C6_NeverRejects ==
    \A r \in DOMAIN m :
        /\ WellFormed(r)
        /\ \A i \in TokenArgs, o \in TokenArgs : ENABLED RecordTurn(r, i, o)
        /\ \A name \in Names, turn \in TurnArgs :
               ENABLED RecordToolCall(r, name, turn)
        /\ ENABLED RecordNudge(r)
        /\ \A turns \in TurnArgs, has_response \in BOOLEAN :
               ENABLED Finalize(r, turns, has_response)

C6_Witness ==
    \E r \in DOMAIN m :
        /\ hist[r].nfinalize = 2
        /\ m[r].turns = -1
        /\ m[r].input_tokens = -1
        /\ m[r].first_tool_turn = Some(-1)
        /\ ToolNames(r) = <<"", "">>
        /\ hist[r].nnudge = 2

----------------------------------------------------------------------------
(* C7 *)

\* one of the calls of NextTwo, on q
AnyCallOn(q) ==
    \/ RecordTurn(q, 1, 0)
    \/ RecordToolCall(q, "write_file", 1)
    \/ RecordNudge(q)
    \/ Finalize(q, 1, FALSE)
    \/ ToolNamesAppend(q, "write_file")

\* C7: two records that were not handed one and the same list at
\* construction hold different list objects; a record nothing was done to
\* is as it was constructed; and whatever is done to one record (the four
\* methods, or appending to its tool_names directly) leaves the other's
\* tool_names and all its other fields as they were.
C7_NoSharedToolNames ==
    /\ [](\A r \in DOMAIN m, q \in DOMAIN m :
             (r # q /\ Independent(r, q)) =>
                 /\ m[r].tool_names # m[q].tool_names
                 /\ ~hist[r].touched => View(heap, m[r]) = born[r])
    /\ [][\A r \in DOMAIN m, q \in DOMAIN m :
             (r # q /\ Independent(r, q)) =>
                 \/ View(heap', m'[r]) = View(heap, m[r])
                 \/ ~AnyCallOn(q)]_vars

C7_Witness ==
    \E r \in DOMAIN m, q \in DOMAIN m :
        /\ r # q
        /\ ctor[r] = NoArgs /\ ctor[q] = NoArgs
        /\ hist[r].touched /\ hist[r].nnudge = 1
        /\ ToolNames(r) = <<>>
        /\ Len(ToolNames(q)) = 2 /\ Len(hist[q].calls) = 1
        /\ hist[q].nfinalize >= 1 /\ hist[q].nnudge >= 1
        /\ m[q].input_tokens > 0

----------------------------------------------------------------------------
(* C8 *)

\* C8: record_nudge sets nudge_fired to true and changes nothing else, and
\* a call made after an earlier call leaves the record exactly as it was.
C8_NudgeIdempotent ==
    [][\A r \in DOMAIN m :
          RecordNudge(r) =>
              /\ m'[r].nudge_fired = TRUE
              /\ FieldsKeptExcept(r, {"nudge_fired"})
              /\ hist[r].nnudge >= 1 => (m' = m /\ heap' = heap)]_vars

C8_Witness ==
    \E r \in DOMAIN m :
        /\ ctor[r].nudge_fired = NotPassed
        /\ hist[r].nnudge = 2
        /\ m[r].nudge_fired
        /\ Len(hist[r].calls) > 0

----------------------------------------------------------------------------
(* C9 *)

\* the state that C9 describes, for record r
DefaultState(r) ==
    /\ m[r].turns = 0 /\ m[r].tool_calls = 0
    /\ m[r].input_tokens = 0 /\ m[r].output_tokens = 0
    /\ m[r].tool_declarations_count = 0
    /\ m[r].nudge_fired = FALSE /\ m[r].empty_response = FALSE
    /\ m[r].first_tool_turn = None
    /\ ToolNames(r) = <<>>
    /\ m[r].model = IF ctor[r].model = NotPassed THEN "" ELSE ctor[r].model[1]

\* C9 as stated: every record, right after construction, has zero counters,
\* false flags, no first_tool_turn, no tool names, and the model supplied or
\* the empty string.
C9_EveryConstructionDefault ==
    \A r \in DOMAIN m : ~hist[r].touched => DefaultState(r)

\* C9, amended: every record constructed with no keyword other than
\* (optionally) model has, right after construction, zero counters, false
\* flags, no first_tool_turn, no tool names, and the model supplied or the
\* empty string.
C9_FreshDefaults ==
    \A r \in DOMAIN m : (Fresh(r) /\ ~hist[r].touched) => DefaultState(r)

C9_Witness ==
    \E r \in DOMAIN m :
        /\ Fresh(r) /\ ~hist[r].touched
        /\ m[r].model = "gemini-test"

----------------------------------------------------------------------------
(* C10 *)

\* C10: in every state reached from a fresh record by the four methods,
\* first_tool_turn is absent exactly when tool_calls is zero, which is
\* exactly when tool_names is empty; and no operation on any record turns
\* nudge_fired from true to false.
C10_FirstTurnIffCalled ==
    /\ [](\A r \in DOMAIN m :
             Fresh(r) =>
                 /\ (m[r].first_tool_turn = None) <=> (m[r].tool_calls = 0)
                 /\ (m[r].tool_calls = 0) <=> (ToolNames(r) = <<>>))
    /\ [][\A r \in DOMAIN m : m[r].nudge_fired => m'[r].nudge_fired]_vars

C10_Witness ==
    \E r \in DOMAIN m :
        /\ Fresh(r)
        /\ m[r].first_tool_turn = Some(-1)
        /\ m[r].tool_calls = 2
        /\ m[r].nudge_fired /\ hist[r].nnudge >= 1
        /\ hist[r].nfinalize >= 1

====
